---- MODULE Spec2Model ----
(***************************************************************************)
(* Model of places-service/main.py: the find_places request handler, the   *)
(* four URL builders it calls, and the upstream text-search round trip.    *)
(*                                                                         *)
(* Text is modelled as a sequence of tokens: a token is a run of           *)
(* characters that urllib's quote_plus leaves alone, or one character it   *)
(* rewrites.  An Optional value is a sequence of length at most one:       *)
(* None is <<>> and a present value v is <<v>>.  A float is an integer     *)
(* number of tenths.                                                       *)
(***************************************************************************)
EXTENDS Integers, Sequences, FiniteSets, TLC

VARIABLES pc, req, outbound, upstream, resp

vars == <<pc, req, outbound, upstream, resp>>

---------------------------------------------------------------------------
(* Bounds *)

MaxUpstream == 2

---------------------------------------------------------------------------
(* Configuration and module constants *)

API_KEY == <<"KEY">>

DEFAULT_RADIUS == 2500

MaxResultsGe == 1

MaxResultsLe == 20

PLACES_TEXTSEARCH_URL == "https://maps.googleapis.com/maps/api/place/textsearch/json"

STATIC_MAPS_URL == "https://maps.googleapis.com/maps/api/staticmap"

---------------------------------------------------------------------------
(* Optional values and Python truthiness *)

None == <<>>

Some(v) == <<v>>

Truthy(o) == o # None /\ o[1] # <<>>

PyOr(a, b) == IF Truthy(a) THEN a ELSE b

Min(a, b) == IF a < b THEN a ELSE b

---------------------------------------------------------------------------
(* Text conversions *)

QuoteTok(t) ==
    CASE t = " " -> "+"
      [] t = ":" -> "%3A"
      [] t = "|" -> "%7C"
      [] t = "," -> "%2C"
      [] t = "/" -> "%2F"
      [] OTHER -> t

quote_plus(s) == [i \in DOMAIN s |-> QuoteTok(s[i])]

FloatStr(x) ==
    IF x < 0
    THEN "-" \o ToString((-x) \div 10) \o "." \o ToString((-x) % 10)
    ELSE ToString(x \div 10) \o "." \o ToString(x % 10)

IntStr(n) == IF n < 0 THEN "-" \o ToString(-n) ELSE ToString(n)

Alphabet ==
    <<"A", "B", "C", "D", "E", "F", "G", "H", "I", "J", "K", "L", "M",
      "N", "O", "P", "Q", "R", "S", "T", "U", "V", "W", "X", "Y", "Z">>

chr(n) == Alphabet[n - 64]

Contains(s, sub) ==
    \E i \in 1..(Len(s) - Len(sub) + 1) : SubSeq(s, i, i + Len(sub) - 1) = sub

---------------------------------------------------------------------------
(* URL builders *)

build_maps_url(place_id, name, lat, lng) ==
    IF Truthy(place_id)
    THEN <<"https://www.google.com/maps/place/", "?", "q", "=", "place_id", ":">>
            \o quote_plus(place_id[1])
    ELSE LET q == quote_plus(name[1]) IN
         IF lat # None /\ lng # None
         THEN <<"https://www.google.com/maps/search/", "?", "api", "=", "1",
                "&", "query", "=">> \o q
                \o <<"&", "center", "=", FloatStr(lat[1]), "%2C", FloatStr(lng[1])>>
         ELSE <<"https://www.google.com/maps/search/", "?", "api", "=", "1",
                "&", "query", "=">> \o q

build_directions_url_IdOnly(place_id, lat, lng) ==
    IF Truthy(place_id)
    THEN <<"https://www.google.com/maps/dir/", "?", "api", "=", "1",
           "&", "destination_place_id", "=">> \o quote_plus(place_id[1])
    ELSE IF lat # None /\ lng # None
    THEN <<"https://www.google.com/maps/dir/", "?", "api", "=", "1",
           "&", "destination", "=", FloatStr(lat[1]), "%2C", FloatStr(lng[1])>>
    ELSE <<"https://www.google.com/maps/dir/", "?", "api", "=", "1">>

build_directions_url(place_id, lat, lng) ==
    IF Truthy(place_id) /\ lat # None /\ lng # None
    THEN <<"https://www.google.com/maps/dir/", "?", "api", "=", "1",
           "&", "destination_place_id", "=">> \o quote_plus(place_id[1])
           \o <<"&", "destination", "=", FloatStr(lat[1]), "%2C", FloatStr(lng[1])>>
    ELSE IF lat # None /\ lng # None
    THEN <<"https://www.google.com/maps/dir/", "?", "api", "=", "1",
           "&", "destination", "=", FloatStr(lat[1]), "%2C", FloatStr(lng[1])>>
    ELSE <<"https://www.google.com/maps/dir/", "?", "api", "=", "1">>

StaticMapParams(lat, lng, label) ==
    << <<"center", <<FloatStr(lat[1]), ",", FloatStr(lng[1])>> >>,
       <<"zoom", <<"16">> >>,
       <<"size", <<"600x360">> >>,
       <<"markers", <<"label", ":", label, "|", FloatStr(lat[1]), ",", FloatStr(lng[1])>> >>,
       <<"key", API_KEY>>,
       <<"scale", <<"2">> >>,
       <<"maptype", <<"roadmap">> >> >>

RECURSIVE JoinParams(_)
JoinParams(ps) ==
    IF ps = <<>> THEN <<>>
    ELSE LET kv == <<ps[1][1], "=">> \o quote_plus(ps[1][2]) IN
         IF Len(ps) = 1 THEN kv ELSE kv \o <<"&">> \o JoinParams(Tail(ps))

build_static_map(lat, lng, label) ==
    IF lat = None \/ lng = None
    THEN None
    ELSE Some(<<STATIC_MAPS_URL, "?">> \o JoinParams(StaticMapParams(lat, lng, label)))

build_embed_iframe(place_id, name) ==
    IF ~Truthy(place_id)
    THEN None
    ELSE LET src == <<"https://www.google.com/maps/embed/v1/place", "?", "key", "=">>
                      \o API_KEY \o <<"&", "q", "=", "place_id", ":">>
                      \o quote_plus(place_id[1])
         IN Some(<<"<iframe width=\"600\" height=\"360\" style=\"border:0\" loading=\"lazy\" allowfullscreen referrerpolicy=\"no-referrer-when-downgrade\" src=\"">>
                   \o src \o <<"\"></iframe>">>)

---------------------------------------------------------------------------
(* Caller inputs and upstream replies the model draws from *)

Queries == {None, Some(<<"ramen", " ", "Monas">>)}

ReqLats == {None, Some(-62)}

ReqLngs == {None, Some(1068)}

Radii == {DEFAULT_RADIUS, 100}

MaxResultsInputs == {0, 1, 20, 21}

PlaceIds == {None, Some(<<"ChIJ1">>)}

ItemLats == {None, Some(-61)}

ItemLngs == {None, Some(1069)}

NamedItems ==
    {[name |-> Some(<<"Warung", " ", "Kopi">>),
      formatted_address |-> Some(<<"Jl", " ", "Sudirman">>),
      vicinity |-> None,
      place_id |-> p, lat |-> a, lng |-> b] :
        p \in PlaceIds, a \in ItemLats, b \in ItemLngs}

VicinityItem ==
    [name |-> Some(<<"Kedai">>), formatted_address |-> None,
     vicinity |-> Some(<<"Menteng">>),
     place_id |-> None, lat |-> None, lng |-> None]

EmptyIdItem ==
    [name |-> Some(<<"Toko", ":", "Roti">>),
     formatted_address |-> Some(<<"Jl", " ", "Thamrin">>),
     vicinity |-> Some(<<"Menteng">>),
     place_id |-> Some(<<>>), lat |-> Some(-61), lng |-> Some(1069)]

NamelessItem ==
    [name |-> None, formatted_address |-> None, vicinity |-> None,
     place_id |-> Some(<<"ChIJ1">>), lat |-> Some(-61), lng |-> Some(1069)]

Items == NamedItems \cup {VicinityItem, EmptyIdItem, NamelessItem}

ItemLists == UNION {[1..k -> Items] : k \in 0..MaxUpstream}

Statuses ==
    {None, Some(<<"OK">>), Some(<<"ZERO_RESULTS">>), Some(<<"REQUEST_DENIED">>)}

NonJsonBody == [json |-> FALSE, status |-> None, results |-> None]

AcceptedStatuses == {Some(<<"OK">>), Some(<<"ZERO_RESULTS">>)}

ShortLists == UNION {[1..k -> Items] : k \in 0..1}

JsonBodies ==
    {[json |-> TRUE, status |-> s, results |-> r] :
        s \in AcceptedStatuses, r \in {None} \cup {Some(l) : l \in ItemLists}}
    \cup {[json |-> TRUE, status |-> s, results |-> r] :
            s \in Statuses \ AcceptedStatuses,
            r \in {None} \cup {Some(l) : l \in ShortLists}}

ErrorBodies ==
    {NonJsonBody}
    \cup {[json |-> TRUE, status |-> s, results |-> Some(<<>>)] : s \in Statuses}
    \cup {[json |-> TRUE, status |-> Some(<<"OK">>), results |-> Some(<<VicinityItem>>)]}

ErrorCodes == {201, 404, 503}

UpstreamResponses ==
    {[kind |-> "response", status_code |-> 200, body |-> b] :
        b \in JsonBodies \cup {NonJsonBody}}
    \cup {[kind |-> "response", status_code |-> c, body |-> b] :
            c \in ErrorCodes, b \in ErrorBodies}

TransportErrors == {"Timeout", "ConnectionError"}

NoReq == [query |-> None, lat |-> None, lng |-> None, radius |-> 0, max_results |-> 0]

NoUpstream == [kind |-> "none", status_code |-> 0, body |-> NonJsonBody]

NoResp == [code |-> 0, detail |-> None, body |-> None]

---------------------------------------------------------------------------
(* find_places: parameter validation and the outbound parameters *)

ValidRequest_NoUpper(r) ==
    r.query # None /\ r.max_results >= MaxResultsGe

ValidRequest(r) ==
    r.query # None /\ r.max_results >= MaxResultsGe /\ r.max_results <= MaxResultsLe

OptFloatStr(o) == IF o = None THEN "None" ELSE FloatStr(o[1])

BuildParams_EitherCoord(r) ==
    LET base == ("query" :> r.query[1]) @@ ("key" :> API_KEY) IN
    IF r.lat # None \/ r.lng # None
    THEN base @@ ("location" :> <<OptFloatStr(r.lat), ",", OptFloatStr(r.lng)>>)
              @@ ("radius" :> <<IntStr(r.radius)>>)
    ELSE base

BuildParams(r) ==
    LET base == ("query" :> r.query[1]) @@ ("key" :> API_KEY) IN
    IF r.lat # None /\ r.lng # None
    THEN base @@ ("location" :> <<FloatStr(r.lat[1]), ",", FloatStr(r.lng[1])>>)
              @@ ("radius" :> <<IntStr(r.radius)>>)
    ELSE base

---------------------------------------------------------------------------
(* find_places: handling of the upstream reply *)

HTTPException(code, detail) == [code |-> code, detail |-> Some(detail), body |-> None]

UnhandledException == [code |-> 500, detail |-> None, body |-> None]

ValidationError == [code |-> 422, detail |-> None, body |-> None]

UpstreamFailed_ServerOnly(r) == r.status_code >= 500

UpstreamFailed(r) == r.status_code # 200

AcceptableStatus_OkOnly(status) == status = Some(<<"OK">>)

AcceptableStatus_AbsentPasses(status) ==
    status = None \/ status \in {Some(<<"OK">>), Some(<<"ZERO_RESULTS">>)}

AcceptableStatus(status) == status \in {Some(<<"OK">>), Some(<<"ZERO_RESULTS">>)}

GetResults(data) == IF data.results = None THEN <<>> ELSE data.results[1]

Truncate_OffByOne(results, max_results) ==
    SubSeq(results, 1, Min(Len(results), max_results + 1))

Truncate(results, max_results) ==
    SubSeq(results, 1, Min(Len(results), max_results))

MarkerLabel_ZeroBased(i) == chr(65 + i)

MarkerLabel(i) == chr(64 + i)

MakePlace(i, it) ==
    [name |-> it.name[1],
     address |-> PyOr(it.formatted_address, it.vicinity),
     location |-> IF it.lat # None /\ it.lng # None
                  THEN Some([lat |-> it.lat[1], lng |-> it.lng[1]])
                  ELSE None,
     place_id |-> it.place_id,
     maps_url |-> build_maps_url(it.place_id, it.name, it.lat, it.lng),
     directions_url |-> build_directions_url(it.place_id, it.lat, it.lng),
     static_map_image_url |-> build_static_map(it.lat, it.lng, MarkerLabel(i)),
     embed_iframe |-> build_embed_iframe(it.place_id, it.name)]

PlacesResponse(r, places) ==
    [code |-> 200, detail |-> None,
     body |-> Some([query |-> r.query[1], radius |-> r.radius,
                    count |-> Len(places), places |-> places])]

HandleReply(rq, r) ==
    IF UpstreamFailed(r)
    THEN HTTPException(502, <<"Upstream error: ", r.body>>)
    ELSE IF ~r.body.json
    THEN UnhandledException
    ELSE LET data == r.body
             status == data.status
         IN IF ~AcceptableStatus(status)
            THEN HTTPException(400, [status |-> status, raw |-> data])
            ELSE LET results == Truncate(GetResults(data), rq.max_results) IN
                 IF \E i \in DOMAIN results : results[i].name = None
                 THEN UnhandledException
                 ELSE PlacesResponse(rq,
                        [i \in DOMAIN results |-> MakePlace(i, results[i])])

---------------------------------------------------------------------------
(* The request life cycle *)

Init ==
    /\ pc = "idle"
    /\ req = NoReq
    /\ outbound = <<>>
    /\ upstream = NoUpstream
    /\ resp = NoResp

Receive(q, lat, lng, radius, max_results) ==
    /\ pc = "idle"
    /\ pc' = "received"
    /\ req' = [query |-> q, lat |-> lat, lng |-> lng, radius |-> radius,
               max_results |-> max_results]
    /\ UNCHANGED <<outbound, upstream, resp>>

Reject ==
    /\ pc = "received"
    /\ ~ValidRequest(req)
    /\ pc' = "done"
    /\ resp' = ValidationError
    /\ UNCHANGED <<req, outbound, upstream>>

Send ==
    /\ pc = "received"
    /\ ValidRequest(req)
    /\ outbound' = Append(outbound,
                     [url |-> PLACES_TEXTSEARCH_URL, params |-> BuildParams(req)])
    /\ pc' = "awaiting"
    /\ UNCHANGED <<req, upstream, resp>>

Complete_Retry(r) ==
    /\ pc = "awaiting"
    /\ upstream' = r
    /\ IF UpstreamFailed(r) /\ Len(outbound) < 2
       THEN /\ outbound' = Append(outbound, outbound[1])
            /\ UNCHANGED <<pc, resp>>
       ELSE /\ resp' = HandleReply(req, r)
            /\ pc' = "done"
            /\ UNCHANGED outbound
    /\ UNCHANGED req

Complete(r) ==
    /\ pc = "awaiting"
    /\ upstream' = r
    /\ resp' = HandleReply(req, r)
    /\ pc' = "done"
    /\ UNCHANGED <<req, outbound>>

Raise(e) ==
    /\ pc = "awaiting"
    /\ upstream' = [kind |-> e, status_code |-> 0, body |-> NonJsonBody]
    /\ resp' = UnhandledException
    /\ pc' = "done"
    /\ UNCHANGED <<req, outbound>>

Return ==
    /\ pc = "done"
    /\ pc' = "idle"
    /\ req' = NoReq
    /\ outbound' = <<>>
    /\ upstream' = NoUpstream
    /\ resp' = NoResp

Next ==
    \/ \E q \in Queries, lat \in ReqLats, lng \in ReqLngs, radius \in Radii,
          max_results \in MaxResultsInputs :
            Receive(q, lat, lng, radius, max_results)
    \/ Reject
    \/ Send
    \/ \E r \in UpstreamResponses : Complete(r)
    \/ \E e \in TransportErrors : Raise(e)
    \/ Return

Spec == Init /\ [][Next]_vars

---------------------------------------------------------------------------
(* Vocabulary of the properties *)

Done == pc = "done"

Replied == upstream.kind = "response"

Replied200 == Replied /\ upstream.status_code = 200 /\ upstream.body.json

Succeeded == Done /\ resp.code = 200

UpResults == GetResults(upstream.body)

Places == resp.body[1].places

HasId(it) == it.place_id # None /\ it.place_id[1] # <<>>

HasCoords(it) == it.lat # None /\ it.lng # None

BothCoordsSupplied == req.lat # None /\ req.lng # None

---------------------------------------------------------------------------
(* C1: every outbound text-search call carries query and key, and carries  *)
(* location="<lat>,<lng>" and radius=<request radius> exactly when both    *)
(* lat and lng were supplied; otherwise it carries neither.                *)
C1_LocationBiasIffBothCoords ==
    \A i \in DOMAIN outbound :
        LET p == outbound[i].params IN
        /\ "query" \in DOMAIN p /\ p["query"] = req.query[1]
        /\ "key" \in DOMAIN p /\ p["key"] = API_KEY
        /\ IF BothCoordsSupplied
           THEN /\ "location" \in DOMAIN p
                /\ p["location"] = <<FloatStr(req.lat[1]), ",", FloatStr(req.lng[1])>>
                /\ "radius" \in DOMAIN p
                /\ p["radius"] = <<IntStr(req.radius)>>
           ELSE "location" \notin DOMAIN p /\ "radius" \notin DOMAIN p

C1_Witness ==
    /\ Len(outbound) = 1
    /\ req.lat # None /\ req.lng = None
    /\ DOMAIN outbound[1].params = {"query", "key"}

(* C2: a request whose max_results is outside [1,20] never has an outbound *)
(* call made for it and ends as a validation error (422).                  *)
C2_OutOfRangeRejectedBeforeCall ==
    (pc # "idle" /\ (req.max_results < 1 \/ req.max_results > 20)) =>
        /\ outbound = <<>>
        /\ pc \in {"received", "done"}
        /\ Done => resp.code = 422

C2_Witness ==
    Done /\ req.query # None /\ req.max_results = 21 /\ resp.code = 422
         /\ outbound = <<>>

(* C3 as stated: whenever the upstream replies 200 with status             *)
(* ZERO_RESULTS, the answer is 200 with count = 0 and places = [], for     *)
(* every such payload.                                                     *)
C3_ZeroResultsAlwaysEmpty ==
    (Done /\ Replied200 /\ upstream.body.status = Some(<<"ZERO_RESULTS">>)) =>
        /\ resp.code = 200
        /\ resp.body[1].count = 0
        /\ resp.body[1].places = <<>>

(* C3 amended: whenever the upstream replies 200 with status ZERO_RESULTS  *)
(* and a results list that is absent or empty, the answer is 200 with      *)
(* count = 0 and places = [].                                              *)
C3_ZeroResultsEmptyWhenNoResults ==
    (Done /\ Replied200 /\ upstream.body.status = Some(<<"ZERO_RESULTS">>)
          /\ UpResults = <<>>) =>
        /\ resp.code = 200
        /\ resp.body[1].count = 0
        /\ resp.body[1].places = <<>>

C3_Witness ==
    /\ Done /\ Replied200
    /\ upstream.body.status = Some(<<"ZERO_RESULTS">>)
    /\ upstream.body.results = Some(<<>>)
    /\ resp.code = 200 /\ resp.body[1].count = 0

(* C4: whenever the upstream replies 200 with a status other than OK or    *)
(* ZERO_RESULTS (an absent status included), the answer is a 400 whose     *)
(* detail carries that status and the whole upstream payload, and no       *)
(* places are returned.                                                    *)
C4_UnexpectedStatusIs400 ==
    (Done /\ Replied200
          /\ upstream.body.status \notin {Some(<<"OK">>), Some(<<"ZERO_RESULTS">>)}) =>
        /\ resp.code = 400
        /\ resp.body = None
        /\ resp.detail = Some([status |-> upstream.body.status, raw |-> upstream.body])

C4_Witness ==
    /\ Done /\ Replied200
    /\ upstream.body.status = None
    /\ Len(UpResults) = 1
    /\ resp.code = 400 /\ resp.body = None

(* C5: when the upstream call fails by timeout or connection failure, the  *)
(* request ends with the gateway error (502) after a single call.          *)
C5_TransportFailureIs502 ==
    (Done /\ upstream.kind \in TransportErrors) =>
        resp.code = 502 /\ Len(outbound) = 1

(* C6: whenever the upstream replies with a status code other than 200,    *)
(* the answer is a 502 with detail "Upstream error: <raw body>", whatever  *)
(* the body's status field says.                                           *)
C6_Non200Is502 ==
    (Done /\ Replied /\ upstream.status_code # 200) =>
        /\ resp.code = 502
        /\ resp.body = None
        /\ resp.detail = Some(<<"Upstream error: ", upstream.body>>)

C6_Witness ==
    /\ Done /\ Replied
    /\ upstream.status_code = 404
    /\ upstream.body.json /\ upstream.body.status = Some(<<"OK">>)
    /\ upstream.body.results # Some(<<>>)
    /\ resp.code = 502

(* C7: in every successful response, places are the first                  *)
(* min(N, max_results) upstream results in upstream order, one place per   *)
(* result, and count = min(N, max_results).                                *)
C7_PlacesArePrefixOfUpstream ==
    Succeeded =>
        LET k == Min(Len(UpResults), req.max_results) IN
        /\ resp.body[1].count = k
        /\ Len(Places) = k
        /\ \A i \in 1..k :
            /\ Some(Places[i].name) = UpResults[i].name
            /\ Places[i].place_id = UpResults[i].place_id
            /\ Places[i].location =
                 IF HasCoords(UpResults[i])
                 THEN Some([lat |-> UpResults[i].lat[1], lng |-> UpResults[i].lng[1]])
                 ELSE None
            /\ Places[i].address # None <=>
                 (UpResults[i].formatted_address # None \/ UpResults[i].vicinity # None)

C7_Witness ==
    /\ Succeeded
    /\ req.max_results = 1
    /\ Len(UpResults) = 2
    /\ UpResults[1] # UpResults[2]
    /\ resp.body[1].count = 1

(* C8: for every returned place, maps_url has the "place_id:" form iff the *)
(* upstream result has an identifier (else it is a text search on the      *)
(* name); embed_iframe is present iff it has an identifier;                *)
(* static_map_image_url is present iff it has both coordinates;            *)
(* directions_url carries a destination iff it has both coordinates and a  *)
(* destination_place_id iff it has identifier and both coordinates.        *)
C8_DerivedFieldsFollowPresence ==
    Succeeded =>
        \A i \in DOMAIN Places :
            LET it == UpResults[i]
                p == Places[i]
            IN
            /\ Contains(p.maps_url, <<"q", "=", "place_id", ":">>) <=> HasId(it)
            /\ ~HasId(it) =>
                 Contains(p.maps_url, <<"query", "=">> \o quote_plus(it.name[1]))
            /\ p.embed_iframe # None <=> HasId(it)
            /\ p.static_map_image_url # None <=> HasCoords(it)
            /\ Contains(p.directions_url, <<"destination", "=">>) <=> HasCoords(it)
            /\ Contains(p.directions_url, <<"destination_place_id", "=">>)
                 <=> (HasId(it) /\ HasCoords(it))

C8_Witness ==
    /\ Succeeded
    /\ Len(Places) >= 1
    /\ HasId(UpResults[1]) /\ ~HasCoords(UpResults[1])
    /\ UpResults[1].lat # None
    /\ Contains(Places[1].maps_url, <<"place_id", ":", "ChIJ1">>)
    /\ Places[1].directions_url = <<"https://www.google.com/maps/dir/", "?", "api", "=", "1">>
    /\ Places[1].static_map_image_url = None
    /\ Places[1].embed_iframe # None

(* C9 as stated: for every returned place with coordinates and no          *)
(* identifier, static_map_image_url is present and contains the text       *)
(* markers=label:<L>|<lat>,<lng>, <L> being the letter of the place's      *)
(* 1-indexed rank, and embed_iframe is absent.                             *)
C9_MarkerTextLiteral ==
    Succeeded =>
        \A i \in DOMAIN Places :
            LET it == UpResults[i] IN
            (HasCoords(it) /\ ~HasId(it)) =>
                /\ Places[i].static_map_image_url # None
                /\ Contains(Places[i].static_map_image_url[1],
                     <<"markers", "=", "label", ":", Alphabet[i], "|",
                       FloatStr(it.lat[1]), ",", FloatStr(it.lng[1])>>)
                /\ Places[i].embed_iframe = None

(* C9 amended: for every returned place with coordinates and no            *)
(* identifier, static_map_image_url is present and contains the            *)
(* URL-encoded marker markers=label%3A<L>%7C<lat>%2C<lng>, <L> being the   *)
(* letter of the place's 1-indexed rank in the truncated list, and         *)
(* embed_iframe is absent.                                                 *)
C9_MarkerTextEncoded ==
    Succeeded =>
        \A i \in DOMAIN Places :
            LET it == UpResults[i] IN
            (HasCoords(it) /\ ~HasId(it)) =>
                /\ Places[i].static_map_image_url # None
                /\ Contains(Places[i].static_map_image_url[1],
                     <<"markers", "=", "label", "%3A", Alphabet[i], "%7C",
                       FloatStr(it.lat[1]), "%2C", FloatStr(it.lng[1])>>)
                /\ Places[i].embed_iframe = None

C9_Witness ==
    /\ Succeeded
    /\ Len(Places) = 2
    /\ ~HasCoords(UpResults[1])
    /\ HasCoords(UpResults[2]) /\ ~HasId(UpResults[2])
    /\ Contains(Places[2].static_map_image_url[1],
         <<"markers", "=", "label", "%3A", "B", "%7C", "-6.1", "%2C", "106.9">>)
    /\ Places[2].embed_iframe = None

(* C10: a find_places invocation makes exactly one outbound call, to the   *)
(* text-search endpoint, whatever its outcome; the call is never repeated  *)
(* and no other endpoint is ever requested.                                *)
C10_ExactlyOneOutboundCall ==
    /\ Len(outbound) <= 1
    /\ \A i \in DOMAIN outbound : outbound[i].url = PLACES_TEXTSEARCH_URL
    /\ pc = "awaiting" => Len(outbound) = 1
    /\ (Done /\ resp.code # 422) => Len(outbound) = 1

C10_Witness ==
    /\ Done
    /\ resp.code = 502
    /\ Len(outbound) = 1
    /\ outbound[1].url = PLACES_TEXTSEARCH_URL

====
